---- MODULE Spec2Model ----
(***************************************************************************)
(* SchemaValidator of src/src/validate_schema.py: a validator object that  *)
(* holds a parsed data contract and an accumulating list of violation      *)
(* records, and whose methods check a tabular dataset against the contract.*)
(*                                                                         *)
(* A cell value is a record [k, v]:                                        *)
(*   k = "num"  a finite number v                                          *)
(*   k = "inf"  +inf (v = 1) or -inf (v = -1)                              *)
(*   k = "nan"  the float NaN, which pandas treats as the missing value    *)
(*   k = "none" the missing value of an object column (None)               *)
(*   k = "str"  the string StrName[v]                                      *)
(* A dataset is [columns, n, dtype, data]: the column names in df.columns  *)
(* order, the row count len(df), each column's storage dtype and values.   *)
(* A contract is [order, rule]: the keys of contract['columns'] in dict    *)
(* order and each key's rule, a record holding only the keys the YAML      *)
(* entry has.                                                              *)
(***************************************************************************)
EXTENDS Integers, Sequences, FiniteSets, TLC

VARIABLES df, contract, violations, op, ret, calls

vars == <<df, contract, violations, op, ret, calls>>

\* ------------------------------------------------------------------ bounds
MaxRows == 2
MaxCalls == 2

\* ------------------------------------------------------------------ values
Num(n) == [k |-> "num", v |-> n]
PosInf == [k |-> "inf", v |-> 1]
NegInf == [k |-> "inf", v |-> -1]
NaN == [k |-> "nan", v |-> 0]
NoneVal == [k |-> "none", v |-> 0]
Str(i) == [k |-> "str", v |-> i]

\* The strings of the model, in lexicographic order (so that the code of a
\* string orders as the string does under sorted()).
StrName == <<"Desktop", "Mobile", "Phone">>

\* Series.isna(): NaN and None are the missing values.
IsNa(x) == x.k \in {"nan", "none"}

\* np.isinf: +inf and -inf only; NaN is not infinite.
IsInf(x) == x.k = "inf"

\* x < b and x > b for a non-null cell x and a contract number b (Python and
\* numpy comparison; a string cell is not comparable, see CompareRaises).
LtNum(x, b) == \/ x = NegInf
               \/ x.k = "num" /\ x.v < b
GtNum(x, b) == \/ x = PosInf
               \/ x.k = "num" /\ x.v > b
LeNum(x, b) == ~GtNum(x, b)

\* x <= y between two non-null numeric cells (used by min() and max()).
LeqVal(x, y) == \/ x = NegInf
                \/ y = PosInf
                \/ x.k = "num" /\ y.k = "num" /\ x.v <= y.v

\* ------------------------------------------------------------ sequences
Range(s) == {s[i] : i \in DOMAIN s}

RECURSIVE SelectIdx(_, _, _)
\* The subsequence of s at the indices i with keep[i], in order.
SelectIdx(s, keep, i) ==
    IF i > Len(s) THEN <<>>
    ELSE (IF keep[i] THEN <<s[i]>> ELSE <<>>) \o SelectIdx(s, keep, i + 1)

\* Series.dropna(): the non-missing values, in row order.
DropNa(s) == SelectIdx(s, [i \in DOMAIN s |-> ~IsNa(s[i])], 1)

\* mask.sum(): the number of rows where the boolean mask is true.
CountTrue(mask) == Cardinality({i \in DOMAIN mask : mask[i]})

\* Series.min() / Series.max() of a non-empty sequence of numeric cells.
MinOf(s) == CHOOSE x \in Range(s) : \A y \in Range(s) : LeqVal(x, y)
MaxOf(s) == CHOOSE x \in Range(s) : \A y \in Range(s) : LeqVal(y, x)

\* Series.duplicated().sum(): the rows whose value occurred in an earlier row
\* (missing values are equal to each other for duplicated()).
DupCount(s) == Cardinality({i \in DOMAIN s : \E j \in 1..(i - 1) : s[j] = s[i]})

\* ----------------------------------------------------------- formatting
Digit == <<"0", "1", "2", "3", "4", "5", "6", "7", "8", "9">>

RECURSIVE NatStr(_)
NatStr(n) == IF n < 10 THEN Digit[n + 1]
             ELSE NatStr(n \div 10) \o Digit[(n % 10) + 1]

\* str() of a Python or numpy integer.
IntStr(n) == IF n < 0 THEN "-" \o NatStr(-n) ELSE NatStr(n)

\* str() of a cell taken from a column of storage dtype dt: an element of a
\* float64 column is a float ("17.0", "inf"), of any other column the object
\* itself.
CellStr(x, dt) ==
    CASE x.k = "num" -> IF dt = "float64" THEN IntStr(x.v) \o ".0" ELSE IntStr(x.v)
      [] x.k = "inf" -> IF x.v > 0 THEN "inf" ELSE "-inf"
      [] x.k = "nan" -> "nan"
      [] x.k = "none" -> "None"
      [] x.k = "str" -> StrName[x.v]

\* The sort key of a cell for sorted(): numbers by value, strings by code.
SortKey(x) == CASE x.k = "inf" -> x.v * 1000000
                [] OTHER -> x.v

\* sorted(S) raises TypeError when S mixes strings and numbers.
MixedKinds(S) == \E a, b \in S : a.k = "str" /\ b.k # "str"

RECURSIVE Sorted(_)
\* sorted(S) for a set of cells of one kind.
Sorted(S) ==
    IF S = {} THEN <<>>
    ELSE LET m == CHOOSE x \in S : \A y \in S : SortKey(x) <= SortKey(y)
         IN  <<m>> \o Sorted(S \ {m})

\* ------------------------------------------------------------- dataset
HasCol(d, c) == c \in Range(d.columns)

\* The outcome of a method: exc is "" when it returned and the exception's
\* name when it raised; result is the returned dict; violations is
\* self.violations when the method ended.
Outcome(e, r, v) == [exc |-> e, result |-> r, violations |-> v]

NoResult == [passed |-> FALSE, issues |-> <<>>]

NotFound(c) ==
    [passed |-> FALSE,
     issues |-> <<"FAIL: Column '" \o c \o "' not found in dataset">>]

\* repr() of a cell inside a printed set or dict: a string is quoted.
CellRepr(x, dt) == IF x.k = "str" THEN "'" \o StrName[x.v] \o "'" ELSE CellStr(x, dt)

RECURSIVE JoinRepr(_, _)
JoinRepr(s, dt) ==
    IF s = <<>> THEN ""
    ELSE IF Len(s) = 1 THEN CellRepr(s[1], dt)
    ELSE CellRepr(s[1], dt) \o ", " \o JoinRepr(Tail(s), dt)

\* The text of a Python set in a message. Python prints a set in hash order;
\* the model prints it sorted.
SetRepr(S, dt) == "{" \o JoinRepr(Sorted(S), dt) \o "}"

RECURSIVE JoinItems(_, _, _)
JoinItems(keys, f, dt) ==
    IF keys = <<>> THEN ""
    ELSE CellRepr(keys[1], dt) \o ": " \o IntStr(f[keys[1]])
         \o (IF Len(keys) = 1 THEN "" ELSE ", " \o JoinItems(Tail(keys), f, dt))

\* The text of Series.to_dict() for a groupby result: keys in sorted order.
DictRepr(f, dt) == "{" \o JoinItems(Sorted(DOMAIN f), f, dt) \o "}"

\* One step of a check: whether it passed, its issue lines, the records it
\* appends to self.violations.
Step(passed, issues, recs) == [passed |-> passed, issues |-> issues, recs |-> recs]

Skipped == Step(TRUE, <<>>, <<>>)

\* Join3 with the records of the second step appended before those of the
\* first: the fault C5 must exclude.
Join3_Reordered(a, b, c, viol) ==
    Outcome("",
            [passed |-> a.passed /\ b.passed /\ c.passed,
             issues |-> a.issues \o b.issues \o c.issues],
            viol \o b.recs \o a.recs \o c.recs)

\* The result dict and self.violations after three steps in a row.
Join3(a, b, c, viol) ==
    Outcome("",
            [passed |-> a.passed /\ b.passed /\ c.passed,
             issues |-> a.issues \o b.issues \o c.issues],
            viol \o a.recs \o b.recs \o c.recs)

\* ------------------------------------------------- validate_primary_keys
\* SessionsOfDay that does not restrict the rows to the group: the fault C18
\* must exclude.
SessionsOfDay_All(d, g) == d.data["Session_ID"]

\* The rows of Session_ID whose Day is g.
SessionsOfDay(d, g) ==
    SelectIdx(d.data["Session_ID"],
              [i \in 1..Len(d.data["Day"]) |-> d.data["Day"][i] = g], 1)

\* The group keys of df.groupby('Day'): the non-missing Day values (groupby
\* drops the rows whose key is missing).
Days(d) == {x \in Range(d.data["Day"]) : ~IsNa(x)}

\* df.groupby('Day')['Session_ID'].apply(lambda x: x.duplicated().sum())
DayDupes(d) == [g \in Days(d) |-> DupCount(SessionsOfDay(d, g))]

RECURSIVE SumOver(_, _)
SumOver(f, S) ==
    IF S = {} THEN 0
    ELSE f[CHOOSE y \in S : TRUE] + SumOver(f, S \ {CHOOSE y \in S : TRUE})

\* day_dupes.sum()
DayDupesSum(d) == SumOver(DayDupes(d), Days(d))

\* day_dupes[day_dupes > 0].to_dict()
ProblematicDays(d) ==
    [g \in {x \in Days(d) : DupCount(SessionsOfDay(d, x)) > 0} |->
        DupCount(SessionsOfDay(d, g))]

\* The global Session_ID step for session_dupes = n.
PkGlobalStep(n) ==
    IF n > 0
    THEN Step(FALSE,
              <<"FAIL: " \o IntStr(n) \o " duplicate Session_IDs found globally">>,
              <<[check |-> "primary_key_global", column |-> "Session_ID",
                 violations |-> n]>>)
    ELSE Step(TRUE, <<"OK: Session_ID is globally unique">>, <<>>)

PkGlobal(d) == PkGlobalStep(DupCount(d.data["Session_ID"]))

\* The within-day step for day_dupes.sum() = n and the problematic days.
PkWithinDayStep(n, days, dt) ==
    IF n > 0
    THEN Step(FALSE,
              <<"FAIL: Session_ID duplicates within days: " \o DictRepr(days, dt)>>,
              <<[check |-> "primary_key_within_day", column |-> "Session_ID",
                 violations |-> n, problematic_days |-> days]>>)
    ELSE Step(TRUE, <<"OK: Session_ID is unique within each day">>, <<>>)

PkWithinDay(d) == PkWithinDayStep(DayDupesSum(d), ProblematicDays(d), d.dtype["Day"])

\* The 'id' step for id_dupes = n.
PkIdStep(n) ==
    IF n > 0
    THEN Step(FALSE,
              <<"FAIL: " \o IntStr(n) \o " duplicate 'id' values found">>,
              <<[check |-> "id_uniqueness", column |-> "id", violations |-> n]>>)
    ELSE Step(TRUE, <<"OK: 'id' is unique">>, <<>>)

\* PkId that treats an absent 'id' column as a failure: the fault C11 must
\* exclude.
PkId_Required(d) ==
    IF HasCol(d, "id") THEN PkIdStep(DupCount(d.data["id"]))
    ELSE Step(FALSE, <<"FAIL: Column 'id' not found in dataset">>, <<>>)

\* The optional 'id' step: nothing at all when the column is absent.
PkId(d) == IF HasCol(d, "id") THEN PkIdStep(DupCount(d.data["id"])) ELSE Skipped

\* validate_primary_keys(df). df['Session_ID'] and df.groupby('Day') raise
\* KeyError on a dataset without the column; the records appended before the
\* raise stay in self.violations.
ValidatePrimaryKeys(d, viol) ==
    IF ~HasCol(d, "Session_ID") THEN Outcome("KeyError", NoResult, viol)
    ELSE IF ~HasCol(d, "Day")
         THEN Outcome("KeyError", NoResult, viol \o PkGlobal(d).recs)
         ELSE Join3(PkGlobal(d), PkWithinDay(d), PkId(d), viol)

\* ------------------------------------------------------- validate_dtype
\* dtype_mapping: the storage dtypes each contract dtype accepts.
DtypeMapping ==
    [int |-> {"int64", "int32", "int16", "int8", "Int64", "Int32"},
     float |-> {"float64", "float32", "Float64"},
     string |-> {"object", "string"},
     category |-> {"object", "string", "category"},
     bool |-> {"bool", "boolean"}]

\* validate_dtype(df, column, expected_dtype): never touches self.violations.
ValidateDtype(d, c, expected) ==
    IF ~HasCol(d, c) THEN NotFound(c)
    ELSE IF expected \in DOMAIN DtypeMapping /\ d.dtype[c] \notin DtypeMapping[expected]
         THEN [passed |-> FALSE,
               issues |-> <<"WARN:  " \o c \o ": expected " \o expected
                            \o ", got " \o d.dtype[c]>>]
         ELSE [passed |-> TRUE, issues |-> <<>>]

\* ----------------------------------------------- validate_numeric_range
\* values < min_val on a column that holds a string raises TypeError.
CompareRaises(values) == \E i \in DOMAIN values : values[i].k = "str"

\* f"[{a}, {b}]"
Brackets(a, b) == "[" \o a \o ", " \o b \o "]"

\* ((values < lo) | (values > hi)).sum()
OutOfRange(values, lo, hi) ==
    CountTrue([i \in DOMAIN values |-> LtNum(values[i], lo) \/ GtNum(values[i], hi)])

\* (values < min_val).sum()
BelowCount(values, min_val) ==
    CountTrue([i \in DOMAIN values |-> LtNum(values[i], min_val)])

\* AtOrBelowCount with < in place of <=, so that a value equal to the gt
\* bound passes: the fault C6 must exclude.
AtOrBelowCount_Strict(values, min_val) ==
    CountTrue([i \in DOMAIN values |-> LtNum(values[i], min_val)])

\* (values <= min_val).sum()
AtOrBelowCount(values, min_val) ==
    CountTrue([i \in DOMAIN values |-> LeNum(values[i], min_val)])

\* RangeStep that appends one record per offending value: the fault C13 must
\* exclude.
RangeStep_PerRow(c, n, expected, found) ==
    IF n > 0
    THEN Step(FALSE,
              <<"FAIL: " \o c \o " has " \o IntStr(n) \o " values outside range "
                \o expected,
                "  Range found: " \o found>>,
              [i \in 1..n |-> [check |-> "range", column |-> c, expected |-> expected,
                               violations |-> 1, actual_range |-> found]])
    ELSE Step(TRUE, <<"OK: " \o c \o " is within range " \o expected>>, <<>>)

\* The range step for n offenders, the expected and the found range.
RangeStep(c, n, expected, found) ==
    IF n > 0
    THEN Step(FALSE,
              <<"FAIL: " \o c \o " has " \o IntStr(n) \o " values outside range "
                \o expected,
                "  Range found: " \o found>>,
              <<[check |-> "range", column |-> c, expected |-> expected,
                 violations |-> n, actual_range |-> found]>>)
    ELSE Step(TRUE, <<"OK: " \o c \o " is within range " \o expected>>, <<>>)

\* The values outside [lo, hi], or all the values when there is none.
Offending(values, lo, hi) ==
    IF OutOfRange(values, lo, hi) = 0 THEN values
    ELSE SelectIdx(values,
                   [i \in DOMAIN values |-> LtNum(values[i], lo) \/ GtNum(values[i], hi)], 1)

\* RangeCheck that reports the minimum and maximum of the offending values
\* only: the fault C14 must exclude.
RangeCheck_Offenders(c, dt, values, spec) ==
    RangeStep(c, OutOfRange(values, spec.range[1], spec.range[2]),
              Brackets(IntStr(spec.range[1]), IntStr(spec.range[2])),
              Brackets(CellStr(MinOf(Offending(values, spec.range[1], spec.range[2])), dt),
                       CellStr(MaxOf(Offending(values, spec.range[1], spec.range[2])), dt)))

\* The range=[lo, hi] sub-check on the non-null values.
RangeCheck(c, dt, values, spec) ==
    RangeStep(c, OutOfRange(values, spec.range[1], spec.range[2]),
              Brackets(IntStr(spec.range[1]), IntStr(spec.range[2])),
              Brackets(CellStr(MinOf(values), dt), CellStr(MaxOf(values), dt)))

\* The ge / gt step: kind is "ge" or "gt", sym its sign, neg the sign of an
\* offender, n the offenders, lo the bound as text.
BoundStep(c, kind, sym, neg, n, lo, min_found) ==
    IF n > 0
    THEN Step(FALSE,
              <<"FAIL: " \o c \o " has " \o IntStr(n) \o " values " \o neg \o " " \o lo>>,
              <<[check |-> kind, column |-> c, expected |-> sym \o " " \o lo,
                 violations |-> n, min_found |-> min_found]>>)
    ELSE Step(TRUE, <<"OK: " \o c \o " " \o sym \o " " \o lo>>, <<>>)

\* The ge=lo sub-check.
GeCheck(c, values, spec) ==
    BoundStep(c, "ge", ">=", "<", BelowCount(values, spec.ge), IntStr(spec.ge),
              MinOf(values))

\* The gt=lo sub-check.
GtCheck(c, values, spec) ==
    BoundStep(c, "gt", ">", "<=", AtOrBelowCount(values, spec.gt), IntStr(spec.gt),
              MinOf(values))

\* NumericSteps that fails a column whose values are all null: the fault C16
\* must exclude.
NumericSteps_NullFails(c, dt, values, spec, viol) ==
    IF Len(values) = 0
    THEN Outcome("", [passed |-> FALSE,
                      issues |-> <<"FAIL: " \o c \o ": all values are null">>], viol)
    ELSE IF DOMAIN spec \cap {"range", "ge", "gt"} # {} /\ CompareRaises(values)
    THEN Outcome("TypeError", NoResult, viol)
    ELSE Join3(IF "range" \in DOMAIN spec THEN RangeCheck(c, dt, values, spec) ELSE Skipped,
               IF "ge" \in DOMAIN spec THEN GeCheck(c, values, spec) ELSE Skipped,
               IF "gt" \in DOMAIN spec THEN GtCheck(c, values, spec) ELSE Skipped,
               viol)

\* The three sub-checks on the non-null values of a column, each run when the
\* rule has its key.
NumericSteps(c, dt, values, spec, viol) ==
    IF Len(values) = 0
    THEN Outcome("", [passed |-> TRUE,
                      issues |-> <<"WARN:  " \o c \o ": all values are null">>], viol)
    ELSE IF DOMAIN spec \cap {"range", "ge", "gt"} # {} /\ CompareRaises(values)
    THEN Outcome("TypeError", NoResult, viol)
    ELSE Join3(IF "range" \in DOMAIN spec THEN RangeCheck(c, dt, values, spec) ELSE Skipped,
               IF "ge" \in DOMAIN spec THEN GeCheck(c, values, spec) ELSE Skipped,
               IF "gt" \in DOMAIN spec THEN GtCheck(c, values, spec) ELSE Skipped,
               viol)

\* validate_numeric_range(df, column, spec).
ValidateNumericRange(d, c, spec, viol) ==
    IF ~HasCol(d, c) THEN Outcome("", NotFound(c), viol)
    ELSE NumericSteps(c, d.dtype[c], DropNa(d.data[c]), spec, viol)

\* ------------------------------------------------- validate_categorical
\* set(df[column].dropna().unique())
UniqueValues(values) == {x \in Range(values) : ~IsNa(x)}

\* unique_values - allowed: the distinct non-null values not allowed.
Unexpected(values, allowed) == UniqueValues(values) \ allowed

\* AffectedRows counting the distinct unexpected values instead of the rows
\* that hold them: the fault C7 must exclude.
AffectedRows_Distinct(values, unexpected) == Cardinality(unexpected)

\* df[column].isin(unexpected).sum()
AffectedRows(values, unexpected) ==
    CountTrue([i \in DOMAIN values |-> values[i] \in unexpected])

\* The note on allowed values that do not occur (information only).
MissingNote(c, missing) ==
    IF missing # {}
    THEN <<"INFO:  " \o c \o ": allowed but not present: " \o SetRepr(missing, "object")>>
    ELSE <<>>

\* The allow-list step for the unexpected set, the affected rows and the
\* allowed values that do not occur.
CategoricalStep(c, dt, allowed, unexpected, count, missing, viol) ==
    IF unexpected = {}
    THEN Outcome("",
                 [passed |-> TRUE,
                  issues |-> <<"OK: " \o c \o " contains only allowed values: "
                               \o SetRepr(allowed, "object")>> \o MissingNote(c, missing)],
                 viol)
    ELSE IF MixedKinds(allowed) \/ MixedKinds(unexpected)
    THEN Outcome("TypeError", NoResult, viol)
    ELSE Outcome("",
                 [passed |-> FALSE,
                  issues |-> <<"FAIL: " \o c \o " has " \o IntStr(Cardinality(unexpected))
                               \o " unexpected values: " \o SetRepr(unexpected, dt),
                               "  " \o IntStr(count) \o " rows affected">>
                             \o MissingNote(c, missing)],
                 viol \o <<[check |-> "categorical_allowed", column |-> c,
                            expected |-> Sorted(allowed),
                            unexpected_values |-> Sorted(unexpected),
                            violations |-> count]>>)

\* validate_categorical(df, column, spec).
ValidateCategorical(d, c, spec, viol) ==
    IF ~HasCol(d, c) THEN Outcome("", NotFound(c), viol)
    ELSE IF "allowed" \notin DOMAIN spec
    THEN Outcome("", [passed |-> TRUE, issues |-> <<>>], viol)
    ELSE CategoricalStep(c, d.dtype[c], spec.allowed,
                         Unexpected(d.data[c], spec.allowed),
                         AffectedRows(d.data[c], Unexpected(d.data[c], spec.allowed)),
                         spec.allowed \ UniqueValues(d.data[c]), viol)

\* ------------------------------------------------------- validate_nulls
\* AllowNull with the default True: the fault C9 must exclude.
AllowNull_DefaultTrue(spec) == IF "allow_null" \in DOMAIN spec THEN spec.allow_null ELSE TRUE

\* col_spec.get('allow_null', False)
AllowNull(spec) == IF "allow_null" \in DOMAIN spec THEN spec.allow_null ELSE FALSE

\* df[col].isna().sum()
NullCount(d, c) == CountTrue([i \in DOMAIN d.data[c] |-> IsNa(d.data[c][i])])

\* (null_count / len(df)) * 100 as the exact fraction num / den; den = 0 is the
\* NaN that numpy returns for 0 / 0 on an empty dataset.
NullPct(d, c) == [num |-> NullCount(d, c) * 100, den |-> d.n]

\* The hundredths of a percentage, rounded.
Hundredths(p) == (2 * 100 * p.num + p.den) \div (2 * p.den)

\* f"{h / 100:.2f}"
TwoDecimals(h) ==
    IntStr(h \div 100) \o "." \o (IF h % 100 < 10 THEN "0" ELSE "") \o IntStr(h % 100)

\* f"{null_pct:.2f}"
PctStr(p) == IF p.den = 0 THEN "nan" ELSE TwoDecimals(Hundredths(p))

\* The null_stats entry of one column.
NullStat(d, c, spec) ==
    [count |-> NullCount(d, c), percentage |-> NullPct(d, c),
     allow_null |-> AllowNull(spec)]

\* Whether the loop body fails column c: nulls not allowed and present.
NullFails(d, c, spec) == ~AllowNull(spec) /\ NullCount(d, c) > 0

NullRecord(d, c) ==
    [check |-> "null_constraint", column |-> c, violations |-> NullCount(d, c),
     percentage |-> NullPct(d, c)]

NullIssue(d, c) ==
    "FAIL: " \o c \o " has " \o IntStr(NullCount(d, c)) \o " nulls ("
    \o PctStr(NullPct(d, c)) \o "%) but nulls not allowed"

\* The contract columns the loop does not skip: those present in the dataset,
\* in contract order.
PresentCols(d, con) ==
    SelectIdx(con.order, [i \in 1..Len(con.order) |-> HasCol(d, con.order[i])], 1)

\* The contract columns the loop fails, in contract order.
NullFailing(d, con) ==
    SelectIdx(con.order,
              [i \in 1..Len(con.order) |->
                  HasCol(d, con.order[i]) /\ NullFails(d, con.order[i], con.rule[con.order[i]])],
              1)

RECURSIVE NullIssues(_, _)
NullIssues(d, cols) ==
    IF cols = <<>> THEN <<>> ELSE <<NullIssue(d, Head(cols))>> \o NullIssues(d, Tail(cols))

RECURSIVE NullRecords(_, _)
NullRecords(d, cols) ==
    IF cols = <<>> THEN <<>> ELSE <<NullRecord(d, Head(cols))>> \o NullRecords(d, Tail(cols))

\* validate_nulls(df): statistics for every contract column present, an issue
\* and a record for each that fails.
ValidateNulls(d, con, viol) ==
    Outcome("",
            [passed |-> NullFailing(d, con) = <<>>,
             issues |-> NullIssues(d, NullFailing(d, con)),
             null_stats |-> [c \in Range(PresentCols(d, con)) |->
                                NullStat(d, c, con.rule[c])]],
            viol \o NullRecords(d, NullFailing(d, con)))

\* ---------------------------------------------- validate_finite_numbers
\* The dtypes np.number selects.
NumericDtypes == {"int64", "int32", "int16", "int8", "float64", "float32"}

\* df.select_dtypes(include=[np.number]).columns, in df.columns order.
NumericCols(d) ==
    SelectIdx(d.columns,
              [i \in 1..Len(d.columns) |-> d.dtype[d.columns[i]] \in NumericDtypes], 1)

\* InfCount with ~np.isfinite in place of np.isinf, which counts NaN as well:
\* the fault C8 must exclude.
InfCount_WithNaN(d, c) ==
    CountTrue([i \in DOMAIN d.data[c] |-> d.data[c][i].k \in {"inf", "nan"}])

\* np.isinf(df[col]).sum()
InfCount(d, c) == CountTrue([i \in DOMAIN d.data[c] |-> IsInf(d.data[c][i])])

\* The numeric columns with inf_count > 0, in df.columns order.
InfCols(d) ==
    SelectIdx(d.columns,
              [i \in 1..Len(d.columns) |->
                  d.dtype[d.columns[i]] \in NumericDtypes /\ InfCount(d, d.columns[i]) > 0],
              1)

FiniteIssue(d, c) == "FAIL: " \o c \o " has " \o IntStr(InfCount(d, c)) \o " inf/-inf values"

FiniteRecord(d, c) == [check |-> "finite_numbers", column |-> c, violations |-> InfCount(d, c)]

RECURSIVE FiniteIssues(_, _)
FiniteIssues(d, cols) ==
    IF cols = <<>> THEN <<>>
    ELSE <<FiniteIssue(d, Head(cols))>> \o FiniteIssues(d, Tail(cols))

RECURSIVE FiniteRecords(_, _)
FiniteRecords(d, cols) ==
    IF cols = <<>> THEN <<>>
    ELSE <<FiniteRecord(d, Head(cols))>> \o FiniteRecords(d, Tail(cols))

\* validate_finite_numbers(df).
ValidateFiniteNumbers(d, viol) ==
    Outcome("",
            [passed |-> InfCols(d) = <<>>,
             issues |-> IF InfCols(d) = <<>>
                        THEN <<"OK: All numeric columns have finite values only">>
                        ELSE FiniteIssues(d, InfCols(d))],
            viol \o FiniteRecords(d, InfCols(d)))

\* --------------------------------------------------------- validate_all
\* The result recorded for a contract column absent from the dataset.
MissingColumn(c) ==
    [passed |-> FALSE, issues |-> <<"Column '" \o c \o "' missing from dataset">>]

\* A sub-check that the loop body does not run.
NotRun(viol) == Outcome("", [passed |-> TRUE, issues |-> <<>>], viol)

\* How the dtype result enters col_results['passed'].
DtypePassed(dtype_result) == dtype_result.passed

\* col_results after the three sub-checks.
ColumnResult(dtype_result, range_out, cat_out) ==
    IF cat_out.exc # "" THEN cat_out
    ELSE Outcome("",
                 [passed |-> DtypePassed(dtype_result) /\ range_out.result.passed
                             /\ cat_out.result.passed,
                  issues |-> dtype_result.issues \o range_out.result.issues
                             \o cat_out.result.issues],
                 cat_out.violations)

\* The categorical part of the loop body, run when the rule has 'allowed'.
AfterRange(d, c, spec, dtype_result, range_out) ==
    IF range_out.exc # "" THEN range_out
    ELSE ColumnResult(dtype_result, range_out,
                      IF "allowed" \in DOMAIN spec
                      THEN ValidateCategorical(d, c, spec, range_out.violations)
                      ELSE NotRun(range_out.violations))

\* ColumnCheck that runs the range check whatever the declared dtype: the
\* fault C15 must exclude.
ColumnCheck_AlwaysRange(d, c, spec, viol) ==
    IF "dtype" \notin DOMAIN spec THEN Outcome("KeyError", NoResult, viol)
    ELSE AfterRange(d, c, spec, ValidateDtype(d, c, spec.dtype),
                    ValidateNumericRange(d, c, spec, viol))

\* The loop body of validate_all for a contract column c present in the
\* dataset. col_spec['dtype'] raises KeyError when the rule has no dtype.
ColumnCheck(d, c, spec, viol) ==
    IF "dtype" \notin DOMAIN spec THEN Outcome("KeyError", NoResult, viol)
    ELSE AfterRange(d, c, spec, ValidateDtype(d, c, spec.dtype),
                    IF spec.dtype \in {"int", "float"}
                    THEN ValidateNumericRange(d, c, spec, viol)
                    ELSE NotRun(viol))

\* ColumnIter whose missing-column branch appends a record: the fault C19
\* must exclude.
ColumnIter_Records(d, c, spec, viol) ==
    IF ~HasCol(d, c)
    THEN Outcome("", MissingColumn(c),
                 Append(viol, [check |-> "missing_column", column |-> c, violations |-> 1]))
    ELSE ColumnCheck(d, c, spec, viol)

\* One iteration of the loop: the missing-column branch or the loop body.
ColumnIter(d, c, spec, viol) ==
    IF ~HasCol(d, c) THEN Outcome("", MissingColumn(c), viol)
    ELSE ColumnCheck(d, c, spec, viol)

\* The loop state after one more iteration.
ColumnsNext(acc, out) ==
    IF out.exc # "" THEN Outcome(out.exc, acc.result, out.violations)
    ELSE Outcome("", Append(acc.result, out.result), out.violations)

RECURSIVE ColumnsLoop(_, _, _, _)
\* The for loop of validate_all from the i-th contract column on; acc holds
\* the column results so far, in contract order, and self.violations.
ColumnsLoop(d, con, i, acc) ==
    IF i > Len(con.order) \/ acc.exc # "" THEN acc
    ELSE ColumnsLoop(d, con, i + 1,
                     ColumnsNext(acc, ColumnIter(d, con.order[i], con.rule[con.order[i]],
                                                 acc.violations)))

\* all_results['columns']: the results keyed by column.
ColumnsDict(con, results) ==
    [c \in Range(con.order) |-> results[CHOOSE i \in 1..Len(con.order) : con.order[i] = c]]

\* The end of validate_all, given the outcomes of its four parts.
AllResults(con, pk, nulls, finite, cols) ==
    IF cols.exc # "" THEN Outcome(cols.exc, NoResult, cols.violations)
    ELSE Outcome("",
                 [primary_keys |-> pk.result,
                  columns |-> ColumnsDict(con, cols.result),
                  nulls |-> nulls.result,
                  finite_numbers |-> finite.result],
                 cols.violations)

AfterFinite(d, con, pk, nulls, finite) ==
    AllResults(con, pk, nulls, finite,
               ColumnsLoop(d, con, 1, Outcome("", <<>>, finite.violations)))

AfterNulls(d, con, pk, nulls) ==
    AfterFinite(d, con, pk, nulls, ValidateFiniteNumbers(d, nulls.violations))

AfterPrimaryKeys(d, con, pk) ==
    IF pk.exc # "" THEN pk
    ELSE AfterNulls(d, con, pk, ValidateNulls(d, con, pk.violations))

\* ValidateAll that starts from an empty violations list: the fault C17 must
\* exclude.
ValidateAll_Reset(d, con, viol) == AfterPrimaryKeys(d, con, ValidatePrimaryKeys(d, <<>>))

\* validate_all(df): the three dataset-wide checks in the order the dict
\* literal evaluates them, then the per-column loop. An exception ends the
\* call with the records appended so far left in self.violations.
ValidateAll(d, con, viol) == AfterPrimaryKeys(d, con, ValidatePrimaryKeys(d, viol))

\* -------------------------------------------------------- print_summary
RECURSIVE Indent(_)
Indent(issues) ==
    IF issues = <<>> THEN <<>>
    ELSE <<"    " \o Head(issues)>> \o Indent(Tail(issues))

\* The lines of one column: its mark and, when it failed, its issues.
ColumnBlock(c, res) ==
    IF res.passed THEN <<"  [ok] " \o c>>
    ELSE <<"  [x] " \o c>> \o Indent(res.issues)

RECURSIVE ColumnLines(_, _, _)
\* The COLUMN VALIDATION block: a mark per column, in dict order, and the
\* issues of the failed ones.
ColumnLines(order, cols, i) ==
    IF i > Len(order) THEN <<>>
    ELSE ColumnBlock(order[i], cols[order[i]]) \o ColumnLines(order, cols, i + 1)

\* v['percentage'] > 1.0 (false for NaN).
HighNull(st) == st.percentage.den > 0 /\ st.percentage.num > st.percentage.den

RECURSIVE InsertDesc(_, _, _)
\* Stable insertion of column c into a list ordered by descending percentage.
InsertDesc(lst, c, stats) ==
    IF lst = <<>> THEN <<c>>
    ELSE IF stats[c].percentage.num > stats[lst[1]].percentage.num
         THEN <<c>> \o lst
         ELSE <<lst[1]>> \o InsertDesc(Tail(lst), c, stats)

RECURSIVE SortedHigh(_, _, _)
\* sorted(high_null_cols.items(), key=percentage, reverse=True)
SortedHigh(order, stats, i) ==
    IF i = 0 THEN <<>>
    ELSE IF order[i] \in DOMAIN stats /\ HighNull(stats[order[i]])
         THEN InsertDesc(SortedHigh(order, stats, i - 1), order[i], stats)
         ELSE SortedHigh(order, stats, i - 1)

NullLine(c, st) ==
    "  " \o c \o ": " \o IntStr(st.count) \o " (" \o PctStr(st.percentage) \o "%) "
    \o (IF st.allow_null THEN "[ok]" ELSE "[x]")

\* The NULL STATISTICS lines of the columns in high.
NullLines(high, stats) == [j \in DOMAIN high |-> NullLine(high[j], stats[high[j]])]

\* The overall status line: decided by len(self.violations) alone.
Verdict(viol) ==
    IF Len(viol) = 0 THEN "ALL CHECKS PASSED - Dataset conforms to schema"
    ELSE "VALIDATION FAILED - " \o IntStr(Len(viol)) \o " violation(s) found"

\* print_summary(results): the lines printed (rules and headings left out).
PrintSummaryLines(results, order, viol) ==
    [pk |-> results.primary_keys.issues,
     columns |-> ColumnLines(order, results.columns, 1),
     nulls |-> NullLines(SortedHigh(order, results.nulls.null_stats, Len(order)),
                         results.nulls.null_stats),
     finite |-> results.finite_numbers.issues,
     verdict |-> Verdict(viol)]

\* save_violations_report(path): the rows written, none when there is no
\* violation (no file is written then).
SavedRows(viol) == viol

\* ---------------------------------------------------------------- inputs
\* A column whose first row holds a and every other row b.
Pat(a, b) == [i \in 1..MaxRows |-> IF i = 1 THEN a ELSE b]

\* Every column of MaxRows rows over the cells of U.
Cols(U) == [1..MaxRows -> U]

\* The storage dtypes a column of these values can have: int64 holds finite
\* numbers only, float64 numbers, infinities and NaN, object anything else.
Storages(values) ==
    IF \A i \in DOMAIN values : values[i].k = "num" THEN {"int64", "float64"}
    ELSE IF \A i \in DOMAIN values : values[i].k \in {"num", "inf", "nan"} THEN {"float64"}
    ELSE {"object"}

\* The columns named name with values from V, under each storage dtype the
\* values can have.
Column(name, V) ==
    UNION {{[name |-> name, dtype |-> dt, values |-> v] : dt \in Storages(v)} : v \in V}

\* The columns named name with values from V, stored as int64 (key columns).
IntColumn(name, V) == {[name |-> name, dtype |-> "int64", values |-> v] : v \in V}

\* A column that may be absent: no column, or one of S.
Opt(S) == {<<>>} \cup {<<c>> : c \in S}

\* The dataset whose columns are cs, in df.columns order.
Dataset(cs) ==
    LET at(c) == cs[CHOOSE i \in DOMAIN cs : cs[i].name = c]
        names == {cs[i].name : i \in DOMAIN cs}
    IN  [columns |-> [i \in DOMAIN cs |-> cs[i].name],
         n |-> MaxRows,
         dtype |-> [c \in names |-> at(c).dtype],
         data |-> [c \in names |-> at(c).values]]

\* A contract from its column order and the rule of each column.
Contract(order, rules) == [order |-> order, rule |-> rules]

\* Datasets of the whole-run specification: Session_ID unique or repeated, Day
\* clean or with a missing or infinite first row, 'id' absent or present, and
\* a numeric column Age.
RunDatasets ==
    {Dataset(<<s, d>> \o i \o <<a>>) :
        s \in IntColumn("Session_ID", {Pat(Num(1), Num(1)), Pat(Num(1), Num(2))}),
        d \in Column("Day", {Pat(Num(1), Num(1)), Pat(NaN, Num(1)), Pat(PosInf, Num(1))}),
        i \in Opt(IntColumn("id", {Pat(Num(1), Num(1))})),
        a \in Column("Age", {Pat(x, y) : x, y \in {Num(0), Num(1), NaN, PosInf}})}

DayRules ==
    {[dtype |-> "float", ge |-> 1],
     [dtype |-> "int", range |-> <<2, 3>>, allow_null |-> TRUE]}

AgeRules ==
    {[dtype |-> "float", range |-> <<1, 1>>, ge |-> 1, gt |-> 0],
     [dtype |-> "int", allowed |-> {Num(1)}, allow_null |-> TRUE],
     [dtype |-> "category", range |-> <<1, 1>>, allowed |-> {Num(0), Num(1)}],
     [allow_null |-> FALSE, ge |-> 1],
     [dtype |-> "float"]}

\* AB_Bucket is a contract column no dataset of the model has.
BucketRules ==
    {[dtype |-> "int"], [allowed |-> {Num(0), Num(1)}]}

RunOrders ==
    {<<"Day", "Age", "AB_Bucket">>, <<"AB_Bucket", "Age", "Day">>,
     <<"Age", "AB_Bucket", "Day">>}

RunContracts ==
    {Contract(o, [Day |-> rd, Age |-> ra, AB_Bucket |-> rb]) :
        o \in RunOrders, rd \in DayRules, ra \in AgeRules, rb \in BucketRules}

\* Datasets of the single-check specification: a numeric column Age over
\* values below, on and above the bounds of its rules, missing and infinite; a
\* text column Device with a missing value; a numeric column Extra that no
\* contract names.
CheckDatasets ==
    {Dataset(<<a, v, e>>) :
        a \in Column("Age", {Pat(x, y) : x, y \in {Num(0), Num(1), Num(2), Num(3),
                                                    NaN, PosInf, NegInf}}),
        v \in Column("Device", {Pat(x, y) : x \in {Str(2), Str(3), NoneVal},
                                            y \in {Str(2), NoneVal}}),
        e \in Column("Extra", {Pat(PosInf, NaN), Pat(NaN, NaN)})}

CheckAgeRules ==
    {[dtype |-> "float", range |-> <<1, 2>>, ge |-> 1, gt |-> 1],
     [dtype |-> "int", range |-> <<1, 2>>, allow_null |-> TRUE],
     [dtype |-> "float", ge |-> 2, gt |-> 0, allowed |-> {Num(1), Num(2)},
      allow_null |-> FALSE]}

CheckDeviceRules ==
    {[dtype |-> "category", allowed |-> {Str(1), Str(2)}],
     [dtype |-> "category", allowed |-> {Str(2), Str(3)}, allow_null |-> TRUE]}

CheckContracts ==
    {Contract(<<"Device", "AB_Bucket", "Age">>,
              [Age |-> ra, Device |-> rv, AB_Bucket |-> [dtype |-> "int"]]) :
        ra \in CheckAgeRules, rv \in CheckDeviceRules}

\* Datasets of the primary-key specification: Session_ID, Day and 'id' each
\* absent or present with every combination of repeated values, Day with
\* missing values, and a column Age of numbers or of text.
KeyDatasets ==
    {Dataset(s \o d \o i \o <<a>>) :
        s \in Opt(IntColumn("Session_ID", Cols({Num(1), Num(2)}))),
        d \in Opt(Column("Day", Cols({Num(1), Num(2), NaN}))),
        i \in Opt(IntColumn("id", Cols({Num(1), Num(2)}))),
        a \in Column("Age", {Pat(Num(1), Num(1)), Pat(Str(2), Str(2))})}

\* Contracts of the primary-key specification: every rule has its dtype.
KeyContracts ==
    {Contract(<<"Age", "AB_Bucket">>, [Age |-> ra, AB_Bucket |-> [dtype |-> "int"]]) :
        ra \in {[dtype |-> "int", range |-> <<1, 2>>],
                [dtype |-> "category", allowed |-> {Str(2)}]}}

\* Datasets of the all-methods specification.
SmallDatasets ==
    {Dataset(<<s, d, a>>) :
        s \in IntColumn("Session_ID", {Pat(Num(1), Num(1)), Pat(Num(1), Num(2))}),
        d \in IntColumn("Day", {Pat(Num(1), Num(1))}),
        a \in Column("Age", {Pat(Num(0), Num(1)), Pat(Num(1), Num(1)), Pat(NaN, PosInf)})}

\* AB_Bucket is a contract column no dataset of the model has.
SmallContracts ==
    {Contract(<<"Age", "AB_Bucket", "Day">>,
              [Day |-> [dtype |-> "int"], Age |-> ra, AB_Bucket |-> [dtype |-> "int"]]) :
        ra \in {[dtype |-> "float", range |-> <<1, 1>>, allowed |-> {Num(1)}]}}

\* ---------------------------------------------------------------- state
NoCall == [name |-> "init", column |-> ""]
NoRet == [exc |-> "", result |-> <<>>]

Start(datasets, contracts) ==
    /\ df \in datasets
    /\ contract \in contracts
    /\ violations = <<>>
    /\ op = NoCall
    /\ ret = NoRet
    /\ calls = 0

\* A method call that ended with outcome out.
Called(name, column, out) ==
    /\ calls < MaxCalls
    /\ calls' = calls + 1
    /\ violations' = out.violations
    /\ ret' = [exc |-> out.exc, result |-> out.result]
    /\ op' = [name |-> name, column |-> column]
    /\ UNCHANGED <<df, contract>>

DoValidateAll == Called("validate_all", "", ValidateAll(df, contract, violations))

DoValidatePrimaryKeys ==
    Called("validate_primary_keys", "", ValidatePrimaryKeys(df, violations))

DoValidateNulls == Called("validate_nulls", "", ValidateNulls(df, contract, violations))

DoValidateFiniteNumbers ==
    Called("validate_finite_numbers", "", ValidateFiniteNumbers(df, violations))

\* The expected_dtype arguments of a direct validate_dtype call.
ExpectedDtypes == {"int", "category", "date"}

DoValidateDtype ==
    \E c \in Range(contract.order), e \in ExpectedDtypes :
        Called("validate_dtype", c, Outcome("", ValidateDtype(df, c, e), violations))

DoValidateNumericRange ==
    \E c \in Range(contract.order) :
        Called("validate_numeric_range", c,
               ValidateNumericRange(df, c, contract.rule[c], violations))

DoValidateCategorical ==
    \E c \in Range(contract.order) :
        Called("validate_categorical", c,
               ValidateCategorical(df, c, contract.rule[c], violations))

\* print_summary(results) with the results validate_all has just returned.
DoPrintSummary ==
    /\ op.name = "validate_all"
    /\ ret.exc = ""
    /\ op' = [name |-> "print_summary", column |-> ""]
    /\ ret' = [exc |-> "",
               result |-> PrintSummaryLines(ret.result, contract.order, violations)]
    /\ UNCHANGED <<df, contract, violations, calls>>

DoSaveViolationsReport ==
    /\ op.name # "save_violations_report"
    /\ op' = [name |-> "save_violations_report", column |-> ""]
    /\ ret' = [exc |-> "", result |-> SavedRows(violations)]
    /\ UNCHANGED <<df, contract, violations, calls>>

\* --------------------------------------------------------- specifications
\* The script's run: validate_all (possibly again), summary, report.
InitRun == Start(RunDatasets, RunContracts)

NextRun == DoValidateAll \/ DoPrintSummary \/ DoSaveViolationsReport

SpecRun == InitRun /\ [][NextRun]_vars

\* The check methods called one by one, as the repository's tests exercise
\* one rule at a time.
InitChecks == Start(CheckDatasets, CheckContracts)

NextChecks ==
    \/ DoValidateNulls
    \/ DoValidateFiniteNumbers
    \/ DoValidateNumericRange
    \/ DoValidateCategorical

SpecChecks == InitChecks /\ [][NextChecks]_vars

\* The primary-key check alone and inside validate_all, on datasets that may
\* lack the key columns.
InitKeys == Start(KeyDatasets, KeyContracts)

NextKeys == DoValidatePrimaryKeys \/ DoValidateAll

SpecKeys == InitKeys /\ [][NextKeys]_vars

\* Every method of the validator, in any order.
Init == Start(SmallDatasets, SmallContracts)

Next ==
    \/ DoValidateAll
    \/ DoValidatePrimaryKeys
    \/ DoValidateNulls
    \/ DoValidateFiniteNumbers
    \/ DoValidateDtype
    \/ DoValidateNumericRange
    \/ DoValidateCategorical
    \/ DoPrintSummary
    \/ DoSaveViolationsReport

Spec == Init /\ [][Next]_vars

\* ------------------------------------------------------------ properties
\* The position of column c in a column order.
Pos(order, c) == CHOOSE i \in 1..Len(order) : order[i] = c

\* The records the step appends to self.violations.
Appended == SubSeq(violations', Len(violations) + 1, Len(violations'))

\* The records of kind k on column c among recs.
RecordsOf(recs, k, c) == {i \in DOMAIN recs : recs[i].check = k /\ recs[i].column = c}

\* C1: validate_all called again on the same validator, dataset and contract
\* yields the same report as the call before: the same results and the same
\* violations list (same records, same order, same counts).
C1_Idempotent ==
    [][(op.name = "validate_all" /\ op'.name = "validate_all")
        => (ret' = ret /\ violations' = violations)]_vars

\* The sub-checks other than the dtype check that validate_all runs for a
\* present contract column c all pass.
OtherChecksPass(c) ==
    /\ contract.rule[c].dtype \in {"int", "float"}
        => /\ ValidateNumericRange(df, c, contract.rule[c], <<>>).exc = ""
           /\ ValidateNumericRange(df, c, contract.rule[c], <<>>).result.passed
    /\ "allowed" \in DOMAIN contract.rule[c]
        => /\ ValidateCategorical(df, c, contract.rule[c], <<>>).exc = ""
           /\ ValidateCategorical(df, c, contract.rule[c], <<>>).result.passed

\* A present contract column whose storage dtype the declared dtype rejects.
DtypeMismatch(c) ==
    /\ HasCol(df, c)
    /\ "dtype" \in DOMAIN contract.rule[c]
    /\ contract.rule[c].dtype \in DOMAIN DtypeMapping
    /\ df.dtype[c] \notin DtypeMapping[contract.rule[c].dtype]

\* C2: after validate_all returned, a present contract column with a dtype
\* mismatch has an issue for it, and passes when every other sub-check run
\* for it passes.
C2_DtypeAdvisory ==
    (op.name = "validate_all" /\ ret.exc = "")
        => \A c \in Range(contract.order) :
              DtypeMismatch(c)
                  => /\ ret.result.columns[c].issues # <<>>
                     /\ OtherChecksPass(c) => ret.result.columns[c].passed

\* C3: when the rule of a contract column has no dtype, validate_all still
\* returns, with a Column Result for every contract column.
C3_NoAbortOnMalformedRule ==
    (op.name = "validate_all"
        /\ \E c \in Range(contract.order) : "dtype" \notin DOMAIN contract.rule[c])
        => /\ ret.exc = ""
           /\ DOMAIN ret.result.columns = Range(contract.order)

\* The contract without column c.
Without(con, c) ==
    [order |-> SelectIdx(con.order, [i \in 1..Len(con.order) |-> con.order[i] # c], 1),
     rule |-> [x \in DOMAIN con.rule \ {c} |-> con.rule[x]]]

\* C4: for a contract column c absent from the dataset (not a primary-key
\* column), validate_all returns; c gets exactly the missing-column result,
\* no null statistics and no record; every other column's result, null
\* statistics and records are those of the run on the contract without c.
C4_MissingColumnSafe ==
    (op.name = "validate_all" /\ calls = 1)
        => \A c \in Range(contract.order) \ {"Session_ID", "Day", "id"} :
              ~HasCol(df, c)
                  => /\ ret.exc = ""
                     /\ ret.result.columns[c].passed = FALSE
                     /\ Len(ret.result.columns[c].issues) = 1
                     /\ c \notin DOMAIN ret.result.nulls.null_stats
                     /\ \A i \in DOMAIN violations : violations[i].column # c
                     /\ ValidateAll(df, Without(contract, c), <<>>).exc = ""
                     /\ \A x \in Range(contract.order) \ {c} :
                           ret.result.columns[x]
                             = ValidateAll(df, Without(contract, c), <<>>).result.columns[x]
                     /\ ret.result.nulls.null_stats
                          = ValidateAll(df, Without(contract, c), <<>>).result.nulls.null_stats
                     /\ violations = ValidateAll(df, Without(contract, c), <<>>).violations

\* The place of a record in the order validate_all runs its checks: the
\* primary-key steps, then the null check by contract column, then the
\* finite check by dataset column, then each contract column's range, ge,
\* gt and allow-list.
Rank(r) ==
    CASE r.check = "primary_key_global" -> 1
      [] r.check = "primary_key_within_day" -> 2
      [] r.check = "id_uniqueness" -> 3
      [] r.check = "null_constraint" -> 100 + Pos(contract.order, r.column)
      [] r.check = "finite_numbers" -> 200 + Pos(df.columns, r.column)
      [] r.check = "range" -> 300 + 10 * Pos(contract.order, r.column) + 1
      [] r.check = "ge" -> 300 + 10 * Pos(contract.order, r.column) + 2
      [] r.check = "gt" -> 300 + 10 * Pos(contract.order, r.column) + 3
      [] r.check = "categorical_allowed" -> 300 + 10 * Pos(contract.order, r.column) + 4

\* C5: after one validate_all run on a fresh validator the violations list is
\* in check execution order: no record precedes a record of an earlier step.
C5_ViolationOrder ==
    (op.name = "validate_all" /\ calls = 1)
        => \A i, j \in DOMAIN violations :
              i < j => Rank(violations[i]) < Rank(violations[j])

\* A run that appended records of all four phases, with the null records of
\* two columns in contract order and against dataset column order.
C5_Witness ==
    /\ op.name = "validate_all" /\ calls = 1
    /\ \E i, j, k, l, m \in DOMAIN violations :
          /\ i < j /\ j < k /\ k < l /\ l < m
          /\ violations[i].check = "primary_key_global"
          /\ violations[j].check = "null_constraint" /\ violations[j].column = "Age"
          /\ violations[k].check = "null_constraint" /\ violations[k].column = "Day"
          /\ violations[l].check = "finite_numbers"
          /\ violations[m].check = "range"

\* The rows of column c that hold a value (not missing).
NonNullRows(c) == {i \in 1..df.n : ~IsNa(df.data[c][i])}

\* The rows of column c whose value offends range=[lo, hi], ge=lo, gt=lo.
RangeOffenders(c, lo, hi) ==
    {i \in NonNullRows(c) : LtNum(df.data[c][i], lo) \/ GtNum(df.data[c][i], hi)}
GeOffenders(c, lo) == {i \in NonNullRows(c) : LtNum(df.data[c][i], lo)}
GtOffenders(c, lo) ==
    {i \in NonNullRows(c) : LtNum(df.data[c][i], lo) \/ df.data[c][i] = Num(lo)}

\* Among recs there is a record of kind k on column c exactly when offenders
\* is not empty, there is at most one, and it counts the offenders.
RecordsCount(recs, k, c, offenders) ==
    /\ (RecordsOf(recs, k, c) # {}) <=> (offenders # {})
    /\ Cardinality(RecordsOf(recs, k, c)) <= 1
    /\ \A i \in RecordsOf(recs, k, c) : recs[i].violations = Cardinality(offenders)

\* The offenders of the sub-check under key k of rule on column c; none when
\* the rule has no such key.
OffendersOf(c, rule, k) ==
    IF k \notin DOMAIN rule THEN {}
    ELSE IF k = "range" THEN RangeOffenders(c, rule.range[1], rule.range[2])
    ELSE IF k = "ge" THEN GeOffenders(c, rule.ge)
    ELSE GtOffenders(c, rule.gt)

\* C6: validate_numeric_range on a present column returns; a non-null value
\* offends range=[lo,hi] iff it is < lo or > hi, ge=lo iff it is < lo, gt=lo
\* iff it is <= lo; each sub-check appends its record exactly when some
\* non-null value offends it, counting the offenders; the check passes iff
\* no sub-check has an offender; missing values are never offenders.
C6_RangeInclusivity ==
    [][(op'.name = "validate_numeric_range" /\ HasCol(df, op'.column))
        => /\ ret'.exc = ""
           /\ \A k \in {"range", "ge", "gt"} :
                 RecordsCount(Appended, k, op'.column,
                              OffendersOf(op'.column, contract.rule[op'.column], k))
           /\ Len(Appended) <= 3
           /\ ret'.result.passed
                <=> \A k \in {"range", "ge", "gt"} :
                       OffendersOf(op'.column, contract.rule[op'.column], k) = {}]_vars

\* A value equal to every bound of range=[1,2], ge=1, gt=1, next to a missing
\* value: only the gt sub-check fails, with one offender.
C6_Witness ==
    /\ op = [name |-> "validate_numeric_range", column |-> "Age"]
    /\ calls = 1
    /\ contract.rule["Age"] = [dtype |-> "float", range |-> <<1, 2>>, ge |-> 1, gt |-> 1]
    /\ df.data["Age"][1] = Num(1)
    /\ \A i \in 2..df.n : df.data["Age"][i] = NaN
    /\ Len(violations) = 1
    /\ violations[1].check = "gt"
    /\ violations[1].violations = 1
    /\ ~ret.result.passed

\* The rows of column c that hold a value outside allowed.
Disallowed(c, allowed) == {i \in NonNullRows(c) : df.data[c][i] \notin allowed}

\* C7: validate_categorical on a present column with an allow-list fails iff
\* some non-null value is not allowed; it then appends one record whose
\* unexpected_values are exactly the distinct non-null values not allowed and
\* whose violations is the number of rows holding one of them; otherwise it
\* appends nothing.
C7_AllowListComplete ==
    [][(op'.name = "validate_categorical" /\ HasCol(df, op'.column)
            /\ "allowed" \in DOMAIN contract.rule[op'.column])
        => /\ ret'.exc = ""
           /\ ret'.result.passed
                <=> Disallowed(op'.column, contract.rule[op'.column].allowed) = {}
           /\ Len(Appended) = IF ret'.result.passed THEN 0 ELSE 1
           /\ \A i \in DOMAIN Appended :
                 /\ Appended[i].check = "categorical_allowed"
                 /\ Appended[i].column = op'.column
                 /\ Range(Appended[i].unexpected_values)
                      = {df.data[op'.column][r] :
                            r \in Disallowed(op'.column, contract.rule[op'.column].allowed)}
                 /\ Len(Appended[i].unexpected_values)
                      = Cardinality(Range(Appended[i].unexpected_values))
                 /\ Appended[i].violations
                      = Cardinality(Disallowed(op'.column,
                                               contract.rule[op'.column].allowed))]_vars

\* Every row holds the same value outside the allow-list: one unexpected
\* value, every row counted.
C7_Witness ==
    /\ op = [name |-> "validate_categorical", column |-> "Age"]
    /\ calls = 1
    /\ \A i \in 1..df.n : df.data["Age"][i] = Num(0)
    /\ Len(violations) = 1
    /\ violations[1].unexpected_values = <<Num(0)>>
    /\ violations[1].violations = df.n

\* The numeric columns of the dataset.
NumericColumns == {c \in Range(df.columns) : df.dtype[c] \in NumericDtypes}

\* The rows of column c that are infinite or not-a-number; that are infinite.
NonFiniteRows(c) == {i \in 1..df.n : df.data[c][i].k \in {"inf", "nan"}}
InfiniteRows(c) == {i \in 1..df.n : df.data[c][i].k = "inf"}

\* C8 as stated: validate_finite_numbers appends one finite_numbers record for
\* a numeric column, in the contract or not, iff the column holds an infinite
\* or not-a-number value, and the record counts these values.
C8_NonFiniteCounted ==
    [][op'.name = "validate_finite_numbers"
        => \A c \in NumericColumns :
              RecordsCount(Appended, "finite_numbers", c, NonFiniteRows(c))]_vars

\* C8 amended: validate_finite_numbers appends one finite_numbers record for
\* a numeric column, in the contract or not, iff the column holds +inf or
\* -inf, and the record counts the infinite values; NaN, the missing value of
\* a numeric column, is never counted; a column that is not numeric gets no
\* record; the check passes iff it appends nothing.
C8_InfiniteCounted ==
    [][op'.name = "validate_finite_numbers"
        => /\ ret'.exc = ""
           /\ \A c \in NumericColumns :
                 RecordsCount(Appended, "finite_numbers", c, InfiniteRows(c))
           /\ \A i \in DOMAIN Appended :
                 /\ Appended[i].check = "finite_numbers"
                 /\ Appended[i].column \in NumericColumns
           /\ ret'.result.passed <=> Appended = <<>>]_vars

\* A numeric column outside the contract with one infinite value and
\* otherwise NaN: one record, counting the infinite value alone.
C8_Witness ==
    /\ op.name = "validate_finite_numbers"
    /\ calls = 1
    /\ "Extra" \notin Range(contract.order)
    /\ df.data["Extra"][1] = PosInf
    /\ \A i \in 2..df.n : df.data["Extra"][i] = NaN
    /\ \E i \in DOMAIN violations :
          /\ violations[i].column = "Extra"
          /\ violations[i].violations = 1

\* The rows of column c that hold the missing value.
NullRows(c) == {i \in 1..df.n : df.data[c][i].k \in {"nan", "none"}}

\* Whether the rule of column c allows nulls (false when it does not say).
Allows(c) ==
    "allow_null" \in DOMAIN contract.rule[c] /\ contract.rule[c].allow_null

\* C9: validate_nulls returns null statistics for exactly the contract
\* columns present in the dataset, each with the null count, the percentage
\* count / rows * 100 and allow_null (false by default); it appends exactly
\* one null_constraint record for a column iff its rule does not allow nulls
\* and its null count is > 0, with violations equal to the null count; it
\* fails iff it appends a record.
C9_NullPolicy ==
    [][op'.name = "validate_nulls"
        => /\ ret'.exc = ""
           /\ DOMAIN ret'.result.null_stats
                = {c \in Range(contract.order) : HasCol(df, c)}
           /\ \A c \in DOMAIN ret'.result.null_stats :
                 /\ ret'.result.null_stats[c].count = Cardinality(NullRows(c))
                 /\ ret'.result.null_stats[c].percentage.num
                      = 100 * Cardinality(NullRows(c))
                 /\ ret'.result.null_stats[c].percentage.den = df.n
                 /\ ret'.result.null_stats[c].allow_null = Allows(c)
                 /\ RecordsCount(Appended, "null_constraint", c,
                                 IF Allows(c) THEN {} ELSE NullRows(c))
           /\ \A i \in DOMAIN Appended :
                 /\ Appended[i].check = "null_constraint"
                 /\ Appended[i].column \in DOMAIN ret'.result.null_stats
           /\ ret'.result.passed <=> Appended = <<>>]_vars

\* Device has a null its rule allows and Age a null its rule does not allow
\* (by default): statistics for both, a record for Age alone.
C9_Witness ==
    /\ op.name = "validate_nulls"
    /\ calls = 1
    /\ Allows("Device")
    /\ "allow_null" \notin DOMAIN contract.rule["Age"]
    /\ ret.result.null_stats["Device"].count = 1
    /\ ret.result.null_stats["Age"].count = 1
    /\ Len(violations) = 1
    /\ violations[1].column = "Age"
    /\ violations[1].violations = 1

\* The check kinds whose records name a contract column's rule.
RuleKinds == {"range", "ge", "gt", "categorical_allowed", "null_constraint", "finite_numbers"}

\* C10: after validate_all returned, every record of a rule kind on a
\* contract column has that column's Column Result failed.
C10_ViolationFailsColumn ==
    (op.name = "validate_all" /\ ret.exc = "")
        => \A i \in DOMAIN violations :
              (violations[i].check \in RuleKinds
                  /\ violations[i].column \in Range(contract.order))
                  => ret.result.columns[violations[i].column].passed = FALSE

\* The rows whose value in column c already occurred in an earlier row.
DupRows(c) == {i \in 1..df.n : \E j \in 1..(i - 1) : df.data[c][j] = df.data[c][i]}

\* The rows whose Session_ID already occurred in an earlier row of the same,
\* non-missing Day.
DayDupRows ==
    {i \in 1..df.n :
        /\ ~IsNa(df.data["Day"][i])
        /\ \E j \in 1..(i - 1) : /\ df.data["Session_ID"][j] = df.data["Session_ID"][i]
                                 /\ df.data["Day"][j] = df.data["Day"][i]}

\* The duplicated rows of 'id', none when the column is absent.
IdDupRows == IF HasCol(df, "id") THEN DupRows("id") ELSE {}

\* A validate_primary_keys step on a dataset that has both key columns.
KeysChecked ==
    /\ op'.name = "validate_primary_keys"
    /\ HasCol(df, "Session_ID")
    /\ HasCol(df, "Day")

\* C11: validate_primary_keys returns passed = true iff no row repeats an
\* earlier Session_ID, no row repeats an earlier Session_ID of its Day, and
\* 'id' is absent or has no repeated value; the global record counts the rows
\* whose Session_ID occurred in an earlier row; an absent 'id' column gives no
\* failure and no record.
C11_PrimaryKeyResult ==
    [][KeysChecked
        => /\ ret'.exc = ""
           /\ ret'.result.passed
                <=> (DupRows("Session_ID") = {} /\ DayDupRows = {} /\ IdDupRows = {})
           /\ RecordsCount(Appended, "primary_key_global", "Session_ID",
                           DupRows("Session_ID"))
           /\ RecordsCount(Appended, "primary_key_within_day", "Session_ID", DayDupRows)
           /\ RecordsCount(Appended, "id_uniqueness", "id", IdDupRows)
           /\ Len(Appended) <= 3]_vars

\* No 'id' column, every row the same Session_ID, every Day missing: the
\* check fails on the global count alone, with the one global record.
C11_Witness ==
    /\ op.name = "validate_primary_keys"
    /\ calls = 1
    /\ HasCol(df, "Session_ID") /\ HasCol(df, "Day") /\ ~HasCol(df, "id")
    /\ \A i \in 1..df.n : df.data["Session_ID"][i] = Num(1) /\ df.data["Day"][i] = NaN
    /\ ret.exc = ""
    /\ ~ret.result.passed
    /\ Len(violations) = 1
    /\ violations[1].check = "primary_key_global"
    /\ violations[1].violations = df.n - 1

\* C12: validate_all raises exactly when Session_ID or Day is absent from the
\* dataset; in every other case it returns a report.
C12_OnlyStructuralFault ==
    op.name = "validate_all"
        => (ret.exc # "" <=> (~HasCol(df, "Session_ID") \/ ~HasCol(df, "Day")))

\* C18: the rows that repeat a Session_ID within their Day are at most the
\* rows that repeat a Session_ID at all, and a primary_key_within_day record
\* comes right after the primary_key_global record of the same call, with a
\* count no larger.
C18_GroupedImpliesGlobal ==
    [][KeysChecked
        => /\ Cardinality(DayDupRows) <= Cardinality(DupRows("Session_ID"))
           /\ \A i \in DOMAIN Appended :
                 Appended[i].check = "primary_key_within_day"
                     => /\ i > 1
                        /\ Appended[i - 1].check = "primary_key_global"
                        /\ Appended[i].violations = Cardinality(DayDupRows)
                        /\ Appended[i - 1].violations = Cardinality(DupRows("Session_ID"))
                        /\ Appended[i].violations <= Appended[i - 1].violations]_vars

\* Two Days, a Session_ID repeated across them and within the second: the
\* within-day record follows the global one.
C18_Witness ==
    /\ op.name = "validate_primary_keys"
    /\ calls = 1
    /\ HasCol(df, "Session_ID") /\ HasCol(df, "Day")
    /\ \A i \in 1..df.n : df.data["Session_ID"][i] = Num(1)
    /\ \A i \in 1..df.n : df.data["Day"][i] = Num(IF i = 1 /\ df.n > 2 THEN 1 ELSE 2)
    /\ Len(violations) >= 2
    /\ violations[1].check = "primary_key_global"
    /\ violations[2].check = "primary_key_within_day"
    /\ violations[2].violations <= violations[1].violations

\* A present contract column of declared numeric dtype whose range, ge and gt
\* all have an offender.
AllThreeFail(c) ==
    /\ HasCol(df, c)
    /\ "dtype" \in DOMAIN contract.rule[c]
    /\ contract.rule[c].dtype \in {"int", "float"}
    /\ \A k \in {"range", "ge", "gt"} :
          k \in DOMAIN contract.rule[c] /\ OffendersOf(c, contract.rule[c], k) # {}

\* C13: after one validate_all run on a fresh validator no two records share
\* check kind and column; when the run returned, a column whose range, ge and
\* gt all fail has exactly three records of these kinds, consecutive and in
\* the order range, ge, gt.
C13_OneRecordPerKind ==
    (op.name = "validate_all" /\ calls = 1)
        => /\ \A i, j \in DOMAIN violations :
                 (violations[i].check = violations[j].check
                     /\ violations[i].column = violations[j].column) => i = j
           /\ \A c \in Range(contract.order) :
                 (ret.exc = "" /\ AllThreeFail(c))
                     => \E i \in DOMAIN violations :
                           /\ i + 2 \in DOMAIN violations
                           /\ \A k \in 0..2 : violations[i + k].column = c
                           /\ violations[i].check = "range"
                           /\ violations[i + 1].check = "ge"
                           /\ violations[i + 2].check = "gt"

\* Every row of Age offends range, ge and gt: three records, one per kind,
\* each counting all the rows.
C13_Witness ==
    /\ op.name = "validate_all" /\ calls = 1 /\ ret.exc = ""
    /\ AllThreeFail("Age")
    /\ \A i \in 1..df.n : df.data["Age"][i] = Num(0)
    /\ \E i \in DOMAIN violations :
          /\ i + 2 \in DOMAIN violations
          /\ violations[i].check = "range" /\ violations[i].violations = df.n
          /\ violations[i + 1].check = "ge" /\ violations[i + 1].violations = df.n
          /\ violations[i + 2].check = "gt" /\ violations[i + 2].violations = df.n

\* The non-null values of column c.
NonNullValues(c) == {df.data[c][i] : i \in NonNullRows(c)}

\* The least and the greatest non-null value of column c.
LeastValue(c) == CHOOSE x \in NonNullValues(c) : \A y \in NonNullValues(c) : LeqVal(x, y)
GreatestValue(c) == CHOOSE x \in NonNullValues(c) : \A y \in NonNullValues(c) : LeqVal(y, x)

\* A number as Python prints an element of column c: 17 from an integer
\* column, 17.0 (or inf, -inf) from a float column.
Printed(x, c) ==
    IF x.k = "inf" THEN (IF x.v > 0 THEN "inf" ELSE "-inf")
    ELSE IF df.dtype[c] = "float64" THEN IntStr(x.v) \o ".0"
    ELSE IntStr(x.v)

\* A validate_numeric_range step on a present column whose rule has a range.
RangeChecked ==
    /\ op'.name = "validate_numeric_range"
    /\ HasCol(df, op'.column)
    /\ "range" \in DOMAIN contract.rule[op'.column]

\* C14 as stated: the range record counts the non-null values outside
\* [lo, hi] and its actual_range is "[min,max]" over all the non-null values,
\* as in actual_range = "[17,70]".
C14_RangeRecordNoSpace ==
    [][RangeChecked
        => \A i \in DOMAIN Appended :
              Appended[i].check = "range"
                  => /\ Appended[i].violations
                          = Cardinality(RangeOffenders(op'.column,
                                                       contract.rule[op'.column].range[1],
                                                       contract.rule[op'.column].range[2]))
                     /\ Appended[i].actual_range
                          = "[" \o Printed(LeastValue(op'.column), op'.column) \o ","
                            \o Printed(GreatestValue(op'.column), op'.column) \o "]"]_vars

\* C14 amended: the single range record counts the non-null values outside
\* [lo, hi] and its actual_range is the text "[min, max]" (comma and space)
\* of the least and greatest of all the non-null values, offenders or not,
\* each printed as the column holds it.
C14_RangeRecordContent ==
    [][RangeChecked
        => /\ Cardinality(RecordsOf(Appended, "range", op'.column)) <= 1
           /\ \A i \in DOMAIN Appended :
                 Appended[i].check = "range"
                     => /\ Appended[i].column = op'.column
                        /\ Appended[i].violations
                             = Cardinality(RangeOffenders(op'.column,
                                                          contract.rule[op'.column].range[1],
                                                          contract.rule[op'.column].range[2]))
                        /\ Appended[i].violations > 0
                        /\ Appended[i].actual_range
                             = "[" \o Printed(LeastValue(op'.column), op'.column) \o ", "
                               \o Printed(GreatestValue(op'.column), op'.column) \o "]"]_vars

\* An integer column with 0 in its first row and 1 elsewhere under range
\* [1, 2]: one offender, and the greatest value is not an offender.
C14_Witness ==
    /\ op = [name |-> "validate_numeric_range", column |-> "Age"]
    /\ calls = 1
    /\ df.dtype["Age"] = "int64"
    /\ df.data["Age"][1] = Num(0)
    /\ \A i \in 2..df.n : df.data["Age"][i] = Num(1)
    /\ "range" \in DOMAIN contract.rule["Age"]
    /\ Len(violations) = 1
    /\ violations[1].check = "range"
    /\ violations[1].violations = 1
    /\ violations[1].actual_range = "[0, 1]"

\* Whether validate_all runs the range check, the allow-list check for c.
RunsRange(c) == contract.rule[c].dtype \in {"int", "float"}
RunsCategorical(c) == "allowed" \in DOMAIN contract.rule[c]

\* The results of the three sub-checks on column c, each called on its own.
DtypeOf(c) == ValidateDtype(df, c, contract.rule[c].dtype)
RangeOf(c) == ValidateNumericRange(df, c, contract.rule[c], <<>>).result
CategoricalOf(c) == ValidateCategorical(df, c, contract.rule[c], <<>>).result

\* C15: when validate_all returned, the Column Result of every contract
\* column present is made of the dtype check, the range check iff the
\* declared dtype is int or float, the allow-list check iff the rule has
\* 'allowed': passed is the AND of those run, issues their issues in the
\* order dtype, range, categorical; a column of another declared dtype has no
\* range, ge or gt record and a rule without 'allowed' no allow-list record.
C15_DispatchAndAggregation ==
    (op.name = "validate_all" /\ ret.exc = "" /\ calls = 1)
        => \A c \in Range(contract.order) :
              HasCol(df, c)
                  => /\ ret.result.columns[c].passed
                          = (/\ DtypeOf(c).passed
                             /\ RunsRange(c) => RangeOf(c).passed
                             /\ RunsCategorical(c) => CategoricalOf(c).passed)
                     /\ ret.result.columns[c].issues
                          = DtypeOf(c).issues
                            \o (IF RunsRange(c) THEN RangeOf(c).issues ELSE <<>>)
                            \o (IF RunsCategorical(c) THEN CategoricalOf(c).issues ELSE <<>>)
                     /\ ~RunsRange(c)
                          => \A k \in {"range", "ge", "gt"} : RecordsOf(violations, k, c) = {}
                     /\ ~RunsCategorical(c)
                          => RecordsOf(violations, "categorical_allowed", c) = {}

\* Age declared category with a range every row offends and an allow-list
\* every row satisfies: the range is not evaluated, the allow-list is.
C15_Witness ==
    /\ op.name = "validate_all" /\ ret.exc = "" /\ calls = 1
    /\ contract.rule["Age"]
         = [dtype |-> "category", range |-> <<1, 1>>, allowed |-> {Num(0), Num(1)}]
    /\ \A i \in 1..df.n : df.data["Age"][i] = Num(0)
    /\ RecordsOf(violations, "range", "Age") = {}
    /\ Len(ret.result.columns["Age"].issues) = 3
    /\ ~ret.result.columns["Age"].passed

\* C16: validate_numeric_range on a present column whose values are all null
\* returns passed = true with the one informational issue and appends no
\* record, whatever bounds the rule has.
C16_AllNullPasses ==
    [][(op'.name = "validate_numeric_range" /\ HasCol(df, op'.column)
            /\ NonNullRows(op'.column) = {})
        => /\ ret'.exc = ""
           /\ ret'.result.passed
           /\ ret'.result.issues = <<"WARN:  " \o op'.column \o ": all values are null">>
           /\ violations' = violations]_vars

\* Age entirely NaN under a rule with range, ge and gt.
C16_Witness ==
    /\ op = [name |-> "validate_numeric_range", column |-> "Age"]
    /\ calls = 1
    /\ \A i \in 1..df.n : df.data["Age"][i] = NaN
    /\ {"range", "ge", "gt"} \subseteq DOMAIN contract.rule["Age"]
    /\ ret.result.passed
    /\ Len(ret.result.issues) = 1
    /\ violations = <<>>

\* C17: every step leaves the records accumulated so far unchanged as a
\* prefix of self.violations, and print_summary and save_violations_report
\* leave the list as it is.
C17_AppendOnly ==
    [][/\ Len(violations) <= Len(violations')
       /\ SubSeq(violations', 1, Len(violations)) = violations
       /\ op'.name \in {"print_summary", "save_violations_report"}
            => violations' = violations]_vars

\* A second call has appended its record after the records of the first.
C17_Witness ==
    /\ calls = 2
    /\ op.name = "validate_categorical"
    /\ Len(violations) >= 2
    /\ violations[1].check = "primary_key_global"
    /\ violations[Len(violations)].check = "categorical_allowed"

\* The check kinds of the records the checks append.
RecordKinds ==
    {"primary_key_global", "primary_key_within_day", "id_uniqueness",
     "null_constraint", "finite_numbers", "range", "ge", "gt", "categorical_allowed"}

\* The status line print_summary prints when it reports success.
AllPassedLine == "ALL CHECKS PASSED - Dataset conforms to schema"

\* C19: validate_dtype leaves self.violations unchanged; validate_all appends
\* no record for a contract column absent from the dataset and none for a
\* dtype mismatch; print_summary reports that all checks passed exactly when
\* self.violations is empty, also when a Column Result has passed = false.
C19_NoRecordForDtypeOrMissing ==
    [][/\ op'.name = "validate_dtype" => violations' = violations
       /\ op'.name = "validate_all"
            => \A i \in DOMAIN Appended :
                  /\ HasCol(df, Appended[i].column)
                  /\ Appended[i].check \in RecordKinds
       /\ op'.name = "print_summary"
            => /\ violations' = violations
               /\ (ret'.result.verdict = AllPassedLine) <=> (violations = <<>>)
               /\ (violations = <<>>
                     /\ \E c \in Range(contract.order) : ~ret.result.columns[c].passed)
                    => ret'.result.verdict = AllPassedLine]_vars

\* print_summary after a run that failed the absent column AB_Bucket and
\* appended no record: the failed column is listed and the status line
\* reports success.
C19_Witness ==
    /\ op.name = "print_summary"
    /\ violations = <<>>
    /\ \E i \in DOMAIN ret.result.columns : ret.result.columns[i] = "  [x] AB_Bucket"
    /\ ret.result.verdict = AllPassedLine

====
